---- MODULE Spec2Model ----
(***************************************************************************)
(* WeatherStation (subject) and its observers.                             *)
(*                                                                         *)
(* Readings are Python floats.  A value v of the model stands for the      *)
(* number v / Scale, so that fractional readings (25.5) exist and int()    *)
(* is a real truncation.  An optional value (Optional[float], a tuple or   *)
(* None, "no exception") is a sequence: <<>> is None / nothing raised.     *)
(* float('inf') and float('nan') are two values apart from the finite ones. *)
(***************************************************************************)
EXTENDS Integers, Sequences, FiniteSets, TLC

\* Resolution of the fractional values: one unit is 1/Scale.
Scale == 2

\* Upper limit on MockObserver.call_count, to keep the state space finite.
MaxCalls == 2

None == <<>>

\* The whole number n as a value.
R(n) == n * Scale

\* float('inf'): above every finite value.
Inf == R(1000000)

\* float('nan').  It stands below every finite value, so that no range of
\* numbers written with <= and >= holds it.
NaN == R(-1000000)

\* Python's float comparisons a < b and a <= b: False when either is NaN.
Lt(a, b) == a # NaN /\ b # NaN /\ a < b

Le(a, b) == a # NaN /\ b # NaN /\ a <= b

\* Python int(x) on a finite float: truncation toward zero.
PyInt(v) == IF v >= 0 THEN v \div Scale ELSE -((-v) \div Scale)

\* The exception of int(x), None for a finite float.
IntError(v) ==
    IF v = NaN THEN <<"ValueError", "cannot convert float NaN to integer">>
    ELSE IF v = Inf THEN <<"OverflowError", "cannot convert float infinity to integer">>
    ELSE None

\* The first exception of int() over the values vs, converted in that order.
FirstIntError(vs) ==
    IF \A i \in 1..Len(vs) : IntError(vs[i]) = None THEN None
    ELSE IntError(vs[CHOOSE i \in 1..Len(vs) :
                         /\ IntError(vs[i]) # None
                         /\ \A j \in 1..(i - 1) : IntError(vs[j]) = None])

Range(s) == {s[i] : i \in 1..Len(s)}

VARIABLES
    observers,        \* WeatherStation._observers: the registry, in order
    temperature,      \* WeatherStation._temperature
    humidity,         \* WeatherStation._humidity
    wind_speed,       \* WeatherStation._wind_speed
    cls,              \* the class of each observer object
    eq_key,           \* what the object's __eq__ compares; None: default identity
    threshold,        \* BaseThresholdAlert._threshold
    threshold_arg,    \* the threshold argument the alert was constructed with
    last_wind_speed,  \* WindSpeedAlert._last_wind_speed
    data,             \* MockObserver.data
    call_count,       \* MockObserver.call_count
    stdout,           \* the lines printed by the most recent operation
    calls,            \* the update() invocations of the most recent operation
    last              \* the most recent call: the operation, its arguments, what
                      \* it raised, and how many observers were registered then

vars == <<observers, temperature, humidity, wind_speed, cls, eq_key, threshold,
          threshold_arg, last_wind_speed, data, call_count, stdout, calls, last>>

\* The observer objects that exist.
Pool == DOMAIN cls

----------------------------------------------------------------------------
(* Python list operations on the registry *)

\* a == b for two observer objects: identity, unless the class defines __eq__.
PyEq(a, b) ==
    \/ a = b
    \/ eq_key[a] # None /\ eq_key[a] = eq_key[b]

\* x in lst
Contains(lst, x) == \E i \in 1..Len(lst) : PyEq(lst[i], x)

\* lst.remove(x) for a list that contains x: the first equal element goes.
ListRemove(lst, x) ==
    LET i == CHOOSE k \in 1..Len(lst) :
                 PyEq(lst[k], x) /\ \A j \in 1..(k - 1) : ~PyEq(lst[j], x)
    IN  SubSeq(lst, 1, i - 1) \o SubSeq(lst, i + 1, Len(lst))

----------------------------------------------------------------------------
(* The station object and what an operation may change, as one record. *)

Self ==
    [observers |-> observers, temperature |-> temperature,
     humidity |-> humidity, wind_speed |-> wind_speed,
     threshold |-> threshold, last_wind_speed |-> last_wind_speed,
     data |-> data, call_count |-> call_count,
     stdout |-> <<>>, calls |-> <<>>, raised |-> None]

print(st, line) == [st EXCEPT !.stdout = Append(@, line)]

\* raise: the exception leaves the running call.
raise(st, err) == [st EXCEPT !.raised = err]

\* print(f"...{int(a)}...{int(b)}..."): the values vs are converted first, in
\* order, and nothing is printed when a conversion raises.
print_ints(st, vs, line) ==
    IF FirstIntError(vs) # None THEN raise(st, FirstIntError(vs))
    ELSE print(st, line)

----------------------------------------------------------------------------
(* Observers *)

WeatherDisplayUpdate(st, o, t, h, w) ==
    print_ints(st, <<t, h, w>>, <<"WeatherDisplay", PyInt(t), PyInt(h), PyInt(w)>>)

BaseThresholdAlertInitUniform(arg, min_threshold, max_threshold) ==
    IF arg # None THEN {arg[1]}
    ELSE R(min_threshold)..R(max_threshold)

BaseThresholdAlertInitFalsy(arg, min_threshold, max_threshold) ==
    IF arg # None /\ arg[1] # 0 THEN {arg[1]}
    ELSE {R(n) : n \in min_threshold..max_threshold}

\* BaseThresholdAlert.__init__: the thresholds a construction can produce.
BaseThresholdAlertInit(arg, min_threshold, max_threshold) ==
    IF arg # None THEN {arg[1]}
    ELSE {R(n) : n \in min_threshold..max_threshold}

TemperatureAlertInit(arg) == BaseThresholdAlertInit(arg, 25, 40)

HumidityAlertInit(arg) == BaseThresholdAlertInit(arg, 60, 90)

_format_alert(st, o, alert_type, value) ==
    <<alert_type, "exceeded", PyInt(st.threshold[o]), PyInt(value)>>

TemperatureAlertUpdateGte(st, o, t, h, w) ==
    IF Le(st.threshold[o], t)
    THEN print_ints(st, <<st.threshold[o], t>>,
                    _format_alert(st, o, "TemperatureAlert", t))
    ELSE st

TemperatureAlertUpdate(st, o, t, h, w) ==
    IF Lt(st.threshold[o], t)
    THEN print_ints(st, <<st.threshold[o], t>>,
                    _format_alert(st, o, "TemperatureAlert", t))
    ELSE st

HumidityAlertUpdateGt(st, o, t, h, w) ==
    IF Lt(st.threshold[o], h)
    THEN print_ints(st, <<st.threshold[o], h>>,
                    _format_alert(st, o, "HumidityAlert", h))
    ELSE st

HumidityAlertUpdate(st, o, t, h, w) ==
    IF Le(st.threshold[o], h)
    THEN print_ints(st, <<st.threshold[o], h>>,
                    _format_alert(st, o, "HumidityAlert", h))
    ELSE st

\* An exception of the print leaves update before the last assignment.
WindSpeedAlertUpdate(st, o, t, h, w) ==
    LET prev == st.last_wind_speed[o]
        said == IF prev = None THEN st
                ELSE IF Lt(prev[1], w)
                     THEN print_ints(st, <<prev[1], w>>,
                                     <<"WindSpeedAlert", "increasing",
                                       PyInt(prev[1]), PyInt(w)>>)
                     ELSE print(st, <<"WindSpeedAlert", "no upward trend">>)
    IN  IF said.raised # None THEN said
        ELSE [said EXCEPT !.last_wind_speed[o] = <<w>>]

\* WeatherStation.remove_observer, which an observer's update can call.
\* list.remove(x) raises ValueError when x is not in the list.
remove_observer_unguarded(st, o) ==
    IF Contains(st.observers, o)
    THEN [st EXCEPT !.observers = ListRemove(@, o)]
    ELSE [st EXCEPT !.raised = <<"ValueError", "list.remove(x): x not in list">>]

remove_observer_first(st, o) ==
    IF Contains(st.observers, o)
    THEN [st EXCEPT !.observers = Tail(@)]
    ELSE st

remove_observer(st, o) ==
    IF Contains(st.observers, o)
    THEN [st EXCEPT !.observers = ListRemove(@, o)]
    ELSE st

\* The tests' MockObserver: stores what it received and counts the calls.
MockObserverUpdate(st, o, t, h, w) ==
    [st EXCEPT !.data[o] = <<t, h, w>>, !.call_count[o] = @ + 1]

\* An observer of the caller whose update raises.
RaisingObserverUpdate(st, o, t, h, w) == raise(st, <<"RuntimeError", o>>)

\* An observer of the caller that records the reading and then takes
\* itself out of the station with remove_observer(self).
SelfRemovingObserverUpdate(st, o, t, h, w) ==
    remove_observer(MockObserverUpdate(st, o, t, h, w), o)

\* observer.update(temperature, humidity, wind_speed), by the object's class.
Update(st, o, t, h, w) ==
    LET called == [st EXCEPT !.calls = Append(@, <<o, t, h, w>>)]
    IN  CASE cls[o] = "WeatherDisplay"   -> WeatherDisplayUpdate(called, o, t, h, w)
          [] cls[o] = "TemperatureAlert" -> TemperatureAlertUpdate(called, o, t, h, w)
          [] cls[o] = "HumidityAlert"    -> HumidityAlertUpdate(called, o, t, h, w)
          [] cls[o] = "WindSpeedAlert"   -> WindSpeedAlertUpdate(called, o, t, h, w)
          [] cls[o] = "MockObserver"     -> MockObserverUpdate(called, o, t, h, w)
          [] cls[o] = "RaisingObserver"  -> RaisingObserverUpdate(called, o, t, h, w)
          [] cls[o] = "SelfRemovingObserver" ->
                 SelfRemovingObserverUpdate(called, o, t, h, w)

----------------------------------------------------------------------------
(* WeatherStation *)

register_observer_always(st, o) ==
    [st EXCEPT !.observers = Append(@, o)]

register_observer_last(st, o) ==
    IF st.observers = <<>> \/ ~PyEq(st.observers[Len(st.observers)], o)
    THEN [st EXCEPT !.observers = Append(@, o)]
    ELSE st

register_observer_front(st, o) ==
    IF ~Contains(st.observers, o)
    THEN [st EXCEPT !.observers = <<o>> \o @]
    ELSE st

register_observer_notifying(st, o) ==
    IF ~Contains(st.observers, o)
    THEN Update([st EXCEPT !.observers = Append(@, o)], o,
                st.temperature, st.humidity, st.wind_speed)
    ELSE st

register_observer(st, o) ==
    IF ~Contains(st.observers, o)
    THEN [st EXCEPT !.observers = Append(@, o)]
    ELSE st

\* The for loop of notify_observers from list index i on: the list iterator
\* reads the list's current length and element at every step, and an exception
\* of update ends the loop.
RECURSIVE NotifyFrom(_, _)
NotifyFrom(st, i) ==
    IF i > Len(st.observers) THEN st
    ELSE LET st2 == Update(st, st.observers[i],
                           st.temperature, st.humidity, st.wind_speed)
         IN  IF st2.raised # None THEN st2 ELSE NotifyFrom(st2, i + 1)

RECURSIVE NotifyFromReversed(_, _)
NotifyFromReversed(st, i) ==
    IF i > Len(st.observers) THEN st
    ELSE LET st2 == Update(st, st.observers[Len(st.observers) + 1 - i],
                           st.temperature, st.humidity, st.wind_speed)
         IN  IF st2.raised # None THEN st2 ELSE NotifyFromReversed(st2, i + 1)

RECURSIVE NotifyFromIsolating(_, _)
NotifyFromIsolating(st, i) ==
    IF i > Len(st.observers) THEN st
    ELSE LET st2 == Update(st, st.observers[i],
                           st.temperature, st.humidity, st.wind_speed)
         IN  NotifyFromIsolating([st2 EXCEPT !.raised = None], i + 1)

notify_observers_isolating(st) == NotifyFromIsolating(st, 1)

notify_observers_reversed(st) == NotifyFromReversed(st, 1)

notify_observers_twice(st) == NotifyFrom(NotifyFrom(st, 1), 1)

notify_observers(st) == NotifyFrom(st, 1)

_validate_measurements_strict(t, h, w) ==
    IF ~(Lt(R(-100), t) /\ Le(t, R(100)))
    THEN <<"ValueError", "Temperature", t>>
    ELSE IF ~(Le(0, h) /\ Le(h, R(100)))
    THEN <<"ValueError", "Humidity", h>>
    ELSE IF Lt(w, 0)
    THEN <<"ValueError", "Wind speed", w>>
    ELSE None

_validate_measurements_wind_first(t, h, w) ==
    IF Lt(w, 0)
    THEN <<"ValueError", "Wind speed", w>>
    ELSE IF ~(Le(R(-100), t) /\ Le(t, R(100)))
    THEN <<"ValueError", "Temperature", t>>
    ELSE IF ~(Le(0, h) /\ Le(h, R(100)))
    THEN <<"ValueError", "Humidity", h>>
    ELSE None

\* The exception _validate_measurements raises, None when it returns.
_validate_measurements(t, h, w) ==
    IF ~(Le(R(-100), t) /\ Le(t, R(100)))
    THEN <<"ValueError", "Temperature", t>>
    ELSE IF ~(Le(0, h) /\ Le(h, R(100)))
    THEN <<"ValueError", "Humidity", h>>
    ELSE IF Lt(w, 0)
    THEN <<"ValueError", "Wind speed", w>>
    ELSE None

set_measurements_rollback(st, t, h, w) ==
    LET err == _validate_measurements(t, h, w)
        done == notify_observers([st EXCEPT !.temperature = t, !.humidity = h,
                                            !.wind_speed = w])
    IN  IF err # None THEN [st EXCEPT !.raised = err]
        ELSE IF done.raised # None
             THEN [done EXCEPT !.temperature = st.temperature,
                               !.humidity = st.humidity,
                               !.wind_speed = st.wind_speed]
             ELSE done

set_measurements_store_first(st, t, h, w) ==
    LET err == _validate_measurements(t, h, w)
        stored == [st EXCEPT !.temperature = t, !.humidity = h, !.wind_speed = w]
    IN  IF err # None THEN [stored EXCEPT !.raised = err]
        ELSE notify_observers(stored)

set_measurements(st, t, h, w) ==
    LET err == _validate_measurements(t, h, w)
    IN  IF err # None THEN [st EXCEPT !.raised = err]
        ELSE notify_observers([st EXCEPT !.temperature = t, !.humidity = h,
                                         !.wind_speed = w])

----------------------------------------------------------------------------
(* Actions: one call of a public operation of the station. *)

\* The state the call leaves behind, and the record of the call.
Commit(st, op, args) ==
    /\ observers' = st.observers
    /\ temperature' = st.temperature
    /\ humidity' = st.humidity
    /\ wind_speed' = st.wind_speed
    /\ threshold' = st.threshold
    /\ last_wind_speed' = st.last_wind_speed
    /\ data' = st.data
    /\ call_count' = st.call_count
    /\ stdout' = st.stdout
    /\ calls' = st.calls
    /\ last' = [op |-> op, args |-> args, raised |-> st.raised,
                 registered |-> Len(observers)]
    /\ UNCHANGED <<cls, eq_key, threshold_arg>>

\* No registered MockObserver has reached the limit of its counter.
Room == \A i \in 1..Len(observers) : call_count[observers[i]] < MaxCalls

RegisterObserver(o) == Commit(register_observer(Self, o), "register_observer", <<o>>)

RemoveObserver(o) == Commit(remove_observer(Self, o), "remove_observer", <<o>>)

NotifyObservers ==
    /\ Room
    /\ Commit(notify_observers(Self), "notify_observers", <<>>)

SetMeasurements(t, h, w) ==
    /\ _validate_measurements(t, h, w) # None \/ Room
    /\ Commit(set_measurements(Self, t, h, w), "set_measurements", <<t, h, w>>)

\* WeatherStation.__init__, with the observer objects objs already constructed.
StationInit(objs) ==
    /\ observers = <<>>
    /\ temperature = 0
    /\ humidity = 0
    /\ wind_speed = 0
    /\ last_wind_speed = [o \in objs |-> None]
    /\ data = [o \in objs |-> None]
    /\ call_count = [o \in objs |-> 0]
    /\ stdout = <<>>
    /\ calls = <<>>
    /\ last = [op |-> "__init__", args |-> <<>>, raised |-> None, registered |-> 0]

----------------------------------------------------------------------------
(* Specifications: the observer objects that exist and the calls made. *)

\* Any sequence of calls, set_measurements with the argument triples of A.
Step(A) ==
    \/ \E o \in Pool : RegisterObserver(o)
    \/ \E o \in Pool : RemoveObserver(o)
    \/ NotifyObservers
    \/ \E a \in A : SetMeasurements(a[1], a[2], a[3])

\* Three MockObserver objects, as in test_multiple_observers.
Mocks == {"obs1", "obs2", "obs3"}

\* Two readings the station accepts and one it rejects for each field.
Readings ==
    {<<R(25), R(60), R(10)>>, <<R(30) + 1, R(70), R(15)>>,
     <<R(-101), R(50), R(10)>>, <<R(25), R(101), R(10)>>, <<R(25), R(50), R(-1)>>}

Init ==
    /\ cls = [o \in Mocks |-> "MockObserver"]
    /\ eq_key = [o \in Mocks |-> None]
    /\ threshold = [o \in Mocks |-> None]
    /\ threshold_arg = [o \in Mocks |-> None]
    /\ StationInit(Mocks)

Next == Step(Readings)

Spec == Init /\ [][Next]_vars

\* set_measurements alone, on a station without observers, with every
\* combination of values at and next to the limits of validation, a large
\* wind speed, and the floats that are not finite numbers.
TempsV == {R(-101), R(-100) - 1, R(-100), R(100), R(100) + 1, R(101), NaN}

HumsV == {R(-1), -1, 0, R(100), R(100) + 1, R(101), NaN}

WindsV == {R(-1), -1, 0, R(200), Inf, NaN}

InitValid ==
    /\ cls = <<>>
    /\ eq_key = <<>>
    /\ threshold = <<>>
    /\ threshold_arg = <<>>
    /\ StationInit({})

NextValid == \E t \in TempsV, h \in HumsV, w \in WindsV : SetMeasurements(t, h, w)

SpecValid == InitValid /\ [][NextValid]_vars

\* Two observer objects of a class whose __eq__ compares a field, holding the
\* same value, and a MockObserver with the default identity comparison.
Keyed == {"k1", "k2"}

InitEq ==
    /\ cls = [o \in Keyed \cup {"obs1"} |-> "MockObserver"]
    /\ eq_key = [o \in Keyed \cup {"obs1"} |-> IF o \in Keyed THEN <<"k">> ELSE None]
    /\ threshold = [o \in Keyed \cup {"obs1"} |-> None]
    /\ threshold_arg = [o \in Keyed \cup {"obs1"} |-> None]
    /\ StationInit(Keyed \cup {"obs1"})

SpecEq == InitEq /\ [][Next]_vars

\* A WeatherDisplay and a TemperatureAlert: created with the threshold 30.0
\* of the tests, or with no threshold and so a random one.
TempArgs == {<<R(30)>>, None}

TempReadings ==
    {<<R(30) - 1, R(60), R(10)>>, <<R(30), R(60), R(10)>>, <<R(30), R(85), R(15)>>,
     <<R(30) + 1, R(60), R(10)>>, <<R(30) + 1, R(85), R(15)>>,
     <<R(31), R(70), R(12)>>, <<R(101), R(60), R(10)>>}

InitTemp ==
    /\ cls = [o \in {"display", "temp_alert"} |->
                 IF o = "display" THEN "WeatherDisplay" ELSE "TemperatureAlert"]
    /\ eq_key = [o \in {"display", "temp_alert"} |-> None]
    /\ \E arg \in TempArgs : \E th \in TemperatureAlertInit(arg) :
           /\ threshold = [o \in {"display", "temp_alert"} |->
                              IF o = "display" THEN None ELSE th]
           /\ threshold_arg = [o \in {"display", "temp_alert"} |->
                                  IF o = "display" THEN None ELSE arg]
    /\ StationInit({"display", "temp_alert"})

NextTemp == Step(TempReadings)

SpecTemp == InitTemp /\ [][NextTemp]_vars

\* A WeatherDisplay and a HumidityAlert: created with the threshold 85.0 of
\* the tests, or with no threshold and so a random one.
HumArgs == {<<R(85)>>, None}

HumReadings ==
    {<<R(25), R(85) - 1, R(10)>>, <<R(25), R(85), R(10)>>, <<R(33), R(85), R(15)>>,
     <<R(25), R(85) + 1, R(10)>>, <<R(33), R(85) + 1, R(15)>>,
     <<R(25), R(60), R(12)>>, <<R(25), R(101), R(10)>>}

InitHum ==
    /\ cls = [o \in {"display", "humidity_alert"} |->
                 IF o = "display" THEN "WeatherDisplay" ELSE "HumidityAlert"]
    /\ eq_key = [o \in {"display", "humidity_alert"} |-> None]
    /\ \E arg \in HumArgs : \E th \in HumidityAlertInit(arg) :
           /\ threshold = [o \in {"display", "humidity_alert"} |->
                              IF o = "display" THEN None ELSE th]
           /\ threshold_arg = [o \in {"display", "humidity_alert"} |->
                                  IF o = "display" THEN None ELSE arg]
    /\ StationInit({"display", "humidity_alert"})

NextHum == Step(HumReadings)

SpecHum == InitHum /\ [][NextHum]_vars

\* The four observers of main.py, the alerts with its thresholds 32.0 and
\* 85.0: readings of its simulation, a wind speed that falls, the accepted
\* wind speeds that are not finite numbers, and a rejected reading.
Builtins == {"display", "temp_alert", "wind_alert", "humidity_alert"}

BuiltinClass ==
    [o \in Builtins |->
        CASE o = "display"        -> "WeatherDisplay"
          [] o = "temp_alert"     -> "TemperatureAlert"
          [] o = "wind_alert"     -> "WindSpeedAlert"
          [] o = "humidity_alert" -> "HumidityAlert"]

BuiltinThresholds ==
    [o \in Builtins |->
        CASE o = "temp_alert"     -> <<R(32)>>
          [] o = "humidity_alert" -> <<R(85)>>
          [] OTHER                -> None]

BuiltinReadings ==
    {<<R(28), R(70), R(12)>>, <<R(33), R(90), R(15)>>, <<R(25), R(50), R(10)>>,
     <<R(25), R(50), Inf>>, <<R(25), R(50), NaN>>, <<R(101), R(50), R(10)>>}

InitBuiltin ==
    /\ cls = BuiltinClass
    /\ eq_key = [o \in Builtins |-> None]
    /\ threshold_arg = BuiltinThresholds
    /\ \E tt \in TemperatureAlertInit(BuiltinThresholds["temp_alert"]) :
       \E hh \in HumidityAlertInit(BuiltinThresholds["humidity_alert"]) :
           threshold = [o \in Builtins |->
                           CASE o = "temp_alert"     -> tt
                             [] o = "humidity_alert" -> hh
                             [] OTHER                -> None]
    /\ StationInit(Builtins)

NextBuiltin == Step(BuiltinReadings)

SpecBuiltin == InitBuiltin /\ [][NextBuiltin]_vars

\* Two MockObserver objects and an observer whose update always raises.
Failing == {"obs1", "obs2", "bad"}

InitFail ==
    /\ cls = [o \in Failing |-> IF o = "bad" THEN "RaisingObserver" ELSE "MockObserver"]
    /\ eq_key = [o \in Failing |-> None]
    /\ threshold = [o \in Failing |-> None]
    /\ threshold_arg = [o \in Failing |-> None]
    /\ StationInit(Failing)

SpecFail == InitFail /\ [][Next]_vars

\* A TemperatureAlert and a HumidityAlert, each created with no threshold,
\* with the threshold 0 or with a negative one: readings above every default
\* threshold, at the lowest default thresholds, and a rejected one.
ThresholdArgs == {None, <<0>>, <<R(-5) - 1>>}

Alerts == {"temp_alert", "humidity_alert"}

ThresholdReadings ==
    {<<R(41), R(91), R(10)>>, <<R(25), R(60), R(10)>>, <<R(101), R(60), R(10)>>}

InitThreshold ==
    /\ cls = [o \in Alerts |->
                 IF o = "temp_alert" THEN "TemperatureAlert" ELSE "HumidityAlert"]
    /\ eq_key = [o \in Alerts |-> None]
    /\ \E ta \in ThresholdArgs, ha \in ThresholdArgs :
       \E tt \in TemperatureAlertInit(ta), hh \in HumidityAlertInit(ha) :
           /\ threshold_arg = [o \in Alerts |-> IF o = "temp_alert" THEN ta ELSE ha]
           /\ threshold = [o \in Alerts |-> IF o = "temp_alert" THEN tt ELSE hh]
    /\ StationInit(Alerts)

NextThreshold == Step(ThresholdReadings)

SpecThreshold == InitThreshold /\ [][NextThreshold]_vars

\* A WeatherDisplay and a MockObserver: readings with fractional parts, one
\* of them negative, an accepted wind speed that is not finite, and a
\* rejected reading.
Shown == {"display", "obs1"}

DisplayReadings ==
    {<<R(25) + 1, R(60) + 1, R(10) + 1>>, <<R(-5) - 1, R(50), R(10)>>,
     <<R(25), R(50), Inf>>, <<R(101), R(50), R(10)>>}

InitDisplay ==
    /\ cls = [o \in Shown |-> IF o = "display" THEN "WeatherDisplay" ELSE "MockObserver"]
    /\ eq_key = [o \in Shown |-> None]
    /\ threshold = [o \in Shown |-> None]
    /\ threshold_arg = [o \in Shown |-> None]
    /\ StationInit(Shown)

NextDisplay == Step(DisplayReadings)

SpecDisplay == InitDisplay /\ [][NextDisplay]_vars

\* Two MockObserver objects and an observer that removes itself from the
\* station in its update.
Leaving == {"obs1", "obs2", "quitter"}

InitLeave ==
    /\ cls = [o \in Leaving |->
                 IF o = "quitter" THEN "SelfRemovingObserver" ELSE "MockObserver"]
    /\ eq_key = [o \in Leaving |-> None]
    /\ threshold = [o \in Leaving |-> None]
    /\ threshold_arg = [o \in Leaving |-> None]
    /\ StationInit(Leaving)

SpecLeave == InitLeave /\ [][Next]_vars

----------------------------------------------------------------------------
(* Properties *)

Registered(o) == o \in Range(observers)

\* The call just made, in an action formula.
Did(op) == last'.op = op

Succeeded == last'.raised = None

\* The validation ranges as the specification words them.
InRange(t, h, w) ==
    /\ R(-100) <= t /\ t <= R(100)
    /\ 0 <= h /\ h <= R(100)
    /\ w >= 0

\* The update() invocations of the most recent operation that went to o.
CallsTo(o, cs) == SelectSeq(cs, LAMBDA c : c[1] = o)

\* The state of every observer object.
obs_state == <<threshold, last_wind_speed, data, call_count>>

reading == <<temperature, humidity, wind_speed>>

\* C1: a successful set_measurements(t, h, w) on a station with N registered
\* observers invokes update exactly N times, once per registered observer, in
\* registration order, each time with exactly (t, h, w).
NotifiesEachOnceInOrder ==
    [][(Did("set_measurements") /\ Succeeded) =>
           /\ Len(calls') = Len(observers)
           /\ \A i \in 1..Len(observers) :
                  calls'[i] = <<observers[i]>> \o last'.args
           /\ \A o \in Pool :
                  IF Registered(o)
                  THEN data'[o] = last'.args /\ call_count'[o] = call_count[o] + 1
                  ELSE data'[o] = data[o] /\ call_count'[o] = call_count[o]]_vars

NotifiedThreeInOrder ==
    /\ last.op = "set_measurements"
    /\ last.raised = None
    /\ observers = <<"obs3", "obs1", "obs2">>
    /\ calls = <<<<"obs3">> \o last.args, <<"obs1">> \o last.args,
                 <<"obs2">> \o last.args>>

\* C2: set_measurements with a triple that fails validation raises an error,
\* leaves the stored reading and the registry as they were and invokes no
\* observer's update.
RejectedChangesNothing ==
    [][(Did("set_measurements")
            /\ ~InRange(last'.args[1], last'.args[2], last'.args[3])) =>
           /\ last'.raised # None
           /\ last'.raised[1] = "ValueError"
           /\ reading' = reading
           /\ observers' = observers
           /\ calls' = <<>>
           /\ stdout' = <<>>
           /\ obs_state' = obs_state]_vars

RejectedAfterAccepted ==
    /\ last.op = "set_measurements"
    /\ last.raised # None
    /\ Len(observers) >= 2
    /\ reading = <<R(30) + 1, R(70), R(15)>>
    /\ \A i \in 1..Len(observers) : data[observers[i]] = reading

\* C3: set_measurements(t, h, w) succeeds, storing the triple, if and only if
\* -100 <= t <= 100, 0 <= h <= 100 and w >= 0: the limits themselves are
\* accepted, wind speed has no upper limit, any value outside is rejected.
AcceptsExactlyTheRanges ==
    last.op = "set_measurements" =>
        /\ last.raised = None <=> InRange(last.args[1], last.args[2], last.args[3])
        /\ last.raised = None => reading = last.args
        /\ last.args \in {<<R(-100), 0, 0>>, <<R(100), R(100), 0>>,
                          <<R(100), 0, R(200)>>} => last.raised = None
        /\ (\/ last.args[1] \in {R(-101), R(101)}
            \/ last.args[2] \in {R(-1), R(101)}
            \/ last.args[3] = R(-1)) => last.raised # None

AcceptedAtTheLimits ==
    /\ last.op = "set_measurements"
    /\ last.args = <<R(-100), R(100), 0>>
    /\ last.raised = None
    /\ reading = last.args

\* C4: when several fields of the argument are invalid at once, the error names
\* exactly one field, the first invalid one in the order temperature, humidity,
\* wind speed, and carries that field's value.
FirstInvalidFieldReported ==
    LET t == last.args[1]
        h == last.args[2]
        w == last.args[3]
        bad_t == ~(R(-100) <= t /\ t <= R(100))
        bad_h == ~(0 <= h /\ h <= R(100))
        bad_w == ~(w >= 0)
    IN  (/\ last.op = "set_measurements"
         /\ (bad_t /\ bad_h) \/ (bad_t /\ bad_w) \/ (bad_h /\ bad_w)) =>
            /\ bad_t => last.raised = <<"ValueError", "Temperature", t>>
            /\ ~bad_t => last.raised = <<"ValueError", "Humidity", h>>

HumidityReportedBeforeWind ==
    /\ last.op = "set_measurements"
    /\ last.args = <<R(100), R(101), R(-1)>>
    /\ last.raised = <<"ValueError", "Humidity", R(101)>>

\* C5: registering an observer that is already registered changes nothing and
\* raises nothing: the registry keeps its contents and order, and every later
\* set_measurements delivers exactly one update to that observer.
DuplicateRegistrationIgnored ==
    [][/\ (Did("register_observer") /\ Registered(last'.args[1])) =>
              /\ observers' = observers
              /\ Succeeded
              /\ calls' = <<>>
              /\ reading' = reading
              /\ obs_state' = obs_state
       /\ (Did("set_measurements") /\ Succeeded) =>
              \A o \in Pool : Registered(o) => Len(CallsTo(o, calls')) = 1]_vars

RegisteredAgain ==
    /\ last.op = "register_observer"
    /\ last.registered = Len(observers)
    /\ Len(observers) >= 2
    /\ observers[1] = last.args[1]

\* C6: after remove_observer(o) no set_measurements or notify_observers
\* delivers an update to o until o is registered again; what o received
\* before the removal stays as it was, and the observers still registered
\* keep receiving every update.
RemovedReceivesNothing ==
    [][\A o \in Pool :
           /\ (Did("remove_observer") /\ last'.args[1] = o) =>
                  /\ o \notin Range(observers')
                  /\ data' = data /\ call_count' = call_count
                  /\ calls' = <<>>
                  /\ \A x \in Pool \ {o} : Registered(x) => x \in Range(observers')
           /\ (~Registered(o) /\ o \in Range(observers')) =>
                  Did("register_observer") /\ last'.args[1] = o
           /\ (Did("set_measurements") \/ Did("notify_observers")) =>
                  IF Registered(o) /\ Succeeded
                  THEN /\ Len(CallsTo(o, calls')) = 1
                       /\ data'[o] = reading'
                       /\ call_count'[o] = call_count[o] + 1
                  ELSE /\ Len(CallsTo(o, calls')) = 0
                       /\ data'[o] = data[o]
                       /\ call_count'[o] = call_count[o]]_vars

OthersNotifiedAfterRemoval ==
    /\ last.op = "set_measurements"
    /\ last.raised = None
    /\ observers = <<"obs1", "obs3">>
    /\ call_count = [o \in Mocks |-> IF o = "obs2" THEN 1 ELSE 2]
    /\ data["obs2"] # reading

\* C7: remove_observer(o) for an o that is not registered raises nothing and
\* leaves the registry, the stored reading and every observer as they were.
RemovingUnregisteredChangesNothing ==
    [][(Did("remove_observer") /\ ~Registered(last'.args[1])) =>
           /\ Succeeded
           /\ observers' = observers
           /\ reading' = reading
           /\ obs_state' = obs_state
           /\ calls' = <<>>]_vars

RemovedAgain ==
    /\ last.op = "remove_observer"
    /\ last.raised = None
    /\ last.registered = Len(observers)
    /\ observers # <<>>
    /\ ~Registered(last.args[1])
    /\ call_count[last.args[1]] > 0

\* C8: whatever calls were made, the registry holds no observer twice.
NoDuplicateInRegistry ==
    \A i, j \in 1..Len(observers) : i # j => observers[i] # observers[j]

FullRegistryRegisteredAgain ==
    /\ last.op = "register_observer"
    /\ last.registered = 3
    /\ Len(observers) = 3

\* C9: the registry goes by identity, not by value: an observer that is not
\* itself in the registry is added by register_observer even when an equal
\* one is registered, and remove_observer(o) never removes another object
\* than o.
RegistryGoesByIdentity ==
    [][/\ Did("register_observer") => last'.args[1] \in Range(observers')
       /\ Did("remove_observer") =>
              \A x \in Pool \ {last'.args[1]} :
                  Registered(x) => x \in Range(observers')]_vars

\* C10: a TemperatureAlert with threshold T prints exactly one alert for an
\* update whose temperature is above T and nothing for one at or below T,
\* whatever the humidity and the wind speed.
AlertsOnlyAboveThreshold ==
    (last.op \in {"set_measurements", "notify_observers"} /\ last.raised = None) =>
        LET alerts == SelectSeq(stdout, LAMBDA l : l[1] = "TemperatureAlert")
            T == threshold["temp_alert"]
        IN  IF Registered("temp_alert") /\ temperature > T
            THEN alerts = <<<<"TemperatureAlert", "exceeded", PyInt(T),
                              PyInt(temperature)>>>>
            ELSE alerts = <<>>

SilentAtThreshold ==
    /\ last.op = "set_measurements"
    /\ last.raised = None
    /\ Registered("temp_alert")
    /\ temperature = threshold["temp_alert"]
    /\ calls # <<>>
    /\ \A i \in 1..Len(stdout) : stdout[i][1] # "TemperatureAlert"

\* C11: a HumidityAlert with threshold H prints exactly one alert for an update
\* whose humidity is H or more (equality fires) and nothing for one below H.
AlertsAtOrAboveThreshold ==
    (last.op \in {"set_measurements", "notify_observers"} /\ last.raised = None) =>
        LET alerts == SelectSeq(stdout, LAMBDA l : l[1] = "HumidityAlert")
            H == threshold["humidity_alert"]
        IN  IF Registered("humidity_alert") /\ humidity >= H
            THEN alerts = <<<<"HumidityAlert", "exceeded", PyInt(H),
                              PyInt(humidity)>>>>
            ELSE alerts = <<>>

AlertAtThreshold ==
    /\ last.op = "set_measurements"
    /\ last.raised = None
    /\ Registered("humidity_alert")
    /\ humidity = threshold["humidity_alert"]
    /\ \E i \in 1..Len(stdout) : stdout[i][1] = "HumidityAlert"

\* C12: of the updates delivered to a fresh WindSpeedAlert, the first prints
\* nothing, and each later one prints exactly one message: the increasing
\* alert with the previous and the current value when the wind speed is above
\* the previous one delivered, and the no-upward-trend message otherwise.
WindTrendMessagePerUpdate ==
    [][LET got == CallsTo("wind_alert", calls')
           prev == last_wind_speed["wind_alert"]
           said == SelectSeq(stdout', LAMBDA l : l[1] = "WindSpeedAlert")
       IN  got # <<>> =>
               /\ Len(got) = 1
               /\ said = IF prev = None THEN <<>>
                         ELSE IF got[1][4] > prev[1]
                              THEN <<<<"WindSpeedAlert", "increasing",
                                       PyInt(prev[1]), PyInt(got[1][4])>>>>
                              ELSE <<<<"WindSpeedAlert", "no upward trend">>>>]_vars

\* C13: the previous value a WindSpeedAlert stores is absent until an update
\* is delivered to it and then the wind speed of the most recent update
\* delivered to it, and every notification pass delivers to a registered
\* WindSpeedAlert exactly once.
WindPreviousIsLastDelivered ==
    [][LET got == CallsTo("wind_alert", calls')
           passed == \/ Did("notify_observers")
                     \/ Did("set_measurements") /\ InRange(last'.args[1], last'.args[2], last'.args[3])
       IN  /\ last_wind_speed'["wind_alert"] =
                  IF got # <<>> THEN <<got[Len(got)][4]>>
                  ELSE last_wind_speed["wind_alert"]
           /\ passed => Len(got) = IF Registered("wind_alert") THEN 1 ELSE 0]_vars

\* C14: the stored reading is within the validation ranges and is the
\* argument of the most recent set_measurements call that passed validation;
\* an argument outside the ranges is neither stored nor delivered.
StoredReadingIsLastValidated ==
    [][/\ InRange(temperature', humidity', wind_speed')
       /\ IF Did("set_measurements") /\ InRange(last'.args[1], last'.args[2], last'.args[3])
          THEN reading' = last'.args
          ELSE reading' = reading
       /\ Did("set_measurements") /\ ~InRange(last'.args[1], last'.args[2], last'.args[3])
              => calls' = <<>>]_vars

\* C20: on a station holding only built-in observers no operation raises,
\* except set_measurements when validation rejects its arguments.
BuiltinsNeverRaise ==
    last.raised # None =>
        /\ last.op = "set_measurements"
        /\ last.raised = _validate_measurements(last.args[1], last.args[2], last.args[3])

\* C15: when the update of the i-th registered observer raises during the
\* notification pass of set_measurements, the exception reaches the caller,
\* the observers registered before it have each received the update exactly
\* once, and the observers registered after it have not received it.
FailureStopsThePass ==
    [][\A i \in 1..Len(observers) :
          (/\ Did("set_measurements")
           /\ _validate_measurements(last'.args[1], last'.args[2], last'.args[3]) = None
           /\ cls[observers[i]] = "RaisingObserver"
           /\ \A j \in 1..(i - 1) : cls[observers[j]] # "RaisingObserver")
          => /\ last'.raised = <<"RuntimeError", observers[i]>>
             /\ observers' = observers
             /\ calls' = [j \in 1..i |-> <<observers[j]>> \o last'.args]
             /\ \A j \in 1..(i - 1) :
                    /\ data'[observers[j]] = last'.args
                    /\ call_count'[observers[j]] = call_count[observers[j]] + 1
             /\ \A j \in (i + 1)..Len(observers) :
                    /\ data'[observers[j]] = data[observers[j]]
                    /\ call_count'[observers[j]] = call_count[observers[j]]]_vars

\* The failing observer is second of three: the first is called, the third is not.
FailedBetweenTwo ==
    /\ observers = <<"obs1", "bad", "obs2">>
    /\ last.op = "set_measurements"
    /\ last.raised = <<"RuntimeError", "bad">>
    /\ Len(calls) = 2
    /\ call_count["obs1"] = 1
    /\ call_count["obs2"] = 0

\* C16: notify_observers delivers the stored reading, whatever it is, exactly
\* once to every registered observer in registration order and leaves the
\* stored reading and the registry unchanged; right after a successful
\* set_measurements(t, h, w) every observer receives (t, h, w).
NotifyResendsStoredReading ==
    [][Did("notify_observers") =>
          /\ Succeeded
          /\ calls' = [i \in 1..Len(observers) |-> <<observers[i]>> \o reading]
          /\ reading' = reading
          /\ observers' = observers
          /\ (last.op = "set_measurements" /\ last.raised = None) =>
                 \A i \in 1..Len(calls') : SubSeq(calls'[i], 2, 4) = last.args]_vars

\* notify_observers reached three observers with a reading set before.
ResentToThree ==
    /\ last.op = "notify_observers"
    /\ Len(observers) = 3
    /\ calls = [i \in 1..3 |-> <<observers[i], R(25), R(60), R(10)>>]
    /\ \A o \in Mocks : call_count[o] = 2

\* C17: register_observer and remove_observer call update on no observer and
\* change neither the stored reading nor the state of any observer; only the
\* registry can differ afterwards.
RegistryOperationsOnlyTouchRegistry ==
    [][Did("register_observer") \/ Did("remove_observer") =>
          /\ Succeeded
          /\ calls' = <<>>
          /\ stdout' = <<>>
          /\ reading' = reading
          /\ obs_state' = obs_state]_vars

\* An observer registered after a reading was delivered to another has
\* received nothing.
RegisteredLateReceivedNothing ==
    /\ last.op = "register_observer"
    /\ last.registered = 1
    /\ Len(observers) = 2
    /\ temperature = R(25)
    /\ call_count[observers[1]] = 1
    /\ call_count[observers[2]] = 0
    /\ data[observers[2]] = None

\* C18: an alert constructed without a threshold has a whole-number
\* threshold, from 25 to 40 for a TemperatureAlert and from 60 to 90 for a
\* HumidityAlert.
DefaultThresholdInRange ==
    \A o \in Alerts :
        threshold_arg[o] = None =>
            /\ threshold[o] % Scale = 0
            /\ cls[o] = "TemperatureAlert" => R(25) <= threshold[o] /\ threshold[o] <= R(40)
            /\ cls[o] = "HumidityAlert" => R(60) <= threshold[o] /\ threshold[o] <= R(90)

\* Both alerts drew the upper limit of their range and alerted on a reading.
DefaultsAtUpperLimit ==
    /\ threshold_arg = [o \in Alerts |-> None]
    /\ threshold["temp_alert"] = R(40)
    /\ threshold["humidity_alert"] = R(90)
    /\ last.op = "set_measurements"
    /\ Len(stdout) = 2

\* C19: an alert constructed with a threshold, 0 and negative values
\* included, has exactly that threshold, and no operation changes the
\* threshold of an alert.
ExplicitThresholdKept ==
    [][/\ threshold' = threshold
       /\ \A o \in Alerts :
              threshold_arg[o] # None => threshold'[o] = threshold_arg[o][1]]_vars

\* An alert with the threshold 0 alerted with it, after several operations.
ZeroThresholdUsed ==
    /\ threshold_arg["temp_alert"] = <<0>>
    /\ threshold["temp_alert"] = 0
    /\ last.op = "notify_observers"
    /\ <<"TemperatureAlert", "exceeded", 0, 41>> \in Range(stdout)

\* The integer part of a value, rounding toward zero.
TowardZero(v) == IF v >= 0 THEN v \div Scale ELSE -((-v) \div Scale)

\* C21: every update delivered to a WeatherDisplay prints exactly one line,
\* showing each of the three values truncated toward zero; the station still
\* stores, and the other observers still receive, the values as given.
DisplayShowsTruncatedValues ==
    [][LET got == CallsTo("display", calls')
           shown == SelectSeq(stdout', LAMBDA l : l[1] = "WeatherDisplay")
       IN  got # <<>> =>
               /\ shown = <<<<"WeatherDisplay", TowardZero(got[1][2]),
                              TowardZero(got[1][3]), TowardZero(got[1][4])>>>>
               /\ reading' = SubSeq(got[1], 2, 4)
               /\ \A i \in 1..Len(observers') :
                      LET o == observers'[i]
                      IN  cls[o] = "MockObserver" => data'[o] = SubSeq(got[1], 2, 4)]_vars

\* C22: observers are notified in the order of their most recent
\* registrations: a removal keeps the order of the others, and an observer
\* registered while not registered goes after all observers registered then.
OrderOfLatestRegistration ==
    [][/\ Did("remove_observer") =>
              observers' = SelectSeq(observers, LAMBDA x : x # last'.args[1])
       /\ Did("register_observer") =>
              observers' = IF Registered(last'.args[1]) THEN observers
                           ELSE Append(observers, last'.args[1])
       /\ Did("notify_observers") \/ Did("set_measurements") =>
              /\ observers' = observers
              /\ Succeeded =>
                     [i \in 1..Len(calls') |-> calls'[i][1]] = observers]_vars

\* An observer that was registered first, then removed and registered
\* again, is notified last.
NotifiedLastAfterReturn ==
    /\ last.op = "notify_observers"
    /\ [i \in 1..Len(calls) |-> calls[i][1]] = <<"obs2", "obs3", "obs1">>
    /\ call_count = [o \in Mocks |-> IF o = "obs1" THEN 2 ELSE 1]

\* C23: a WindSpeedAlert that has received an update never goes back to
\* having no previous value, and nothing but an update delivered to it
\* changes that value; registered again after a removal, its next update is
\* compared with the last wind speed delivered to it before the removal and
\* prints exactly one message.
WindHistorySurvivesRemoval ==
    [][LET got == CallsTo("wind_alert", calls')
           prev == last_wind_speed["wind_alert"]
           said == SelectSeq(stdout', LAMBDA l : l[1] = "WindSpeedAlert")
           back == /\ last.op = "register_observer"
                   /\ last.args = <<"wind_alert">>
                   /\ Len(observers) = last.registered + 1
                   /\ prev # None
       IN  /\ prev # None => last_wind_speed'["wind_alert"] # None
           /\ got = <<>> => last_wind_speed'["wind_alert"] = prev
           /\ back /\ got # <<>> =>
                  said = IF got[1][4] > prev[1]
                         THEN <<<<"WindSpeedAlert", "increasing",
                                  PyInt(prev[1]), PyInt(got[1][4])>>>>
                         ELSE <<<<"WindSpeedAlert", "no upward trend">>>>]_vars

\* C24: a set_measurements call that passes validation and then fails in an
\* observer's update leaves its arguments as the stored reading, and a
\* notify_observers call right after it delivers that reading.
FailedCallKeepsNewReading ==
    [][/\ (/\ Did("set_measurements")
           /\ _validate_measurements(last'.args[1], last'.args[2], last'.args[3]) = None
           /\ ~Succeeded)
          => reading' = last'.args
       /\ (/\ last.op = "set_measurements"
           /\ last.raised # None
           /\ _validate_measurements(last.args[1], last.args[2], last.args[3]) = None
           /\ Did("notify_observers"))
          => /\ calls' # <<>>
             /\ \A i \in 1..Len(calls') : SubSeq(calls'[i], 2, 4) = last.args]_vars

\* After a failed call the station holds a reading that a registered
\* observer has not seen.
StoredReadingNotSeenByAll ==
    /\ last.op = "set_measurements"
    /\ last.raised = <<"RuntimeError", "bad">>
    /\ observers = <<"obs1", "bad", "obs2">>
    /\ reading = last.args
    /\ data["obs1"] = reading
    /\ data["obs2"] # None
    /\ data["obs2"] # reading

\* C25: in a notification pass in which an observer's update removes that
\* observer from the station, every other observer registered at the start
\* of the pass receives the update exactly once.
SelfRemovalSkipsNobody ==
    [][(/\ \/ Did("notify_observers")
           \/ /\ Did("set_measurements")
              /\ _validate_measurements(last'.args[1], last'.args[2], last'.args[3]) = None
        /\ \E i \in 1..Len(observers) : cls[observers[i]] = "SelfRemovingObserver")
       => \A i \in 1..Len(observers) :
              cls[observers[i]] # "SelfRemovingObserver" =>
                  Len(CallsTo(observers[i], calls')) = 1]_vars

============================================================================
